---- MODULE Spec2Model ----
(***************************************************************************)
(* hitcapsule: the track matcher (SpotifyClient.search_best_track), the    *)
(* catalog search gateway (_run_query), the playlist upsert protocol       *)
(* (upsert_playlist_with_items and its helpers) and the submitted workflow *)
(* of app.py that drives them.                                             *)
(*                                                                         *)
(* Text is a sequence of one-character strings; the six typographic        *)
(* characters of _APOSTROPHE_FIX and the multiplication sign are written   *)
(* as the tokens "lsquo", "rsquo", "ldquo", "rdquo", "ndash", "mdash" and  *)
(* "times".                                                                *)
(***************************************************************************)
EXTENDS Integers, Sequences, FiniteSets, TLC

VARIABLES
    pc,          \* position of the running operation
    playlists,   \* the caller's playlists in the catalog, in enumeration order
    nextId,      \* id the catalog gives to the next created playlist
    calls,       \* catalog calls issued by the current playlist operation
    req,         \* arguments of the current playlist operation
    ret,         \* outcome of the last playlist operation
    before,      \* the playlists as they were when the current operation began
    nCalls,      \* playlist operations started so far
    prev,        \* req, ret and before of the operation before the last one
    chart,       \* what the chart source holds for the picked date(s)
    list_for_search, \* app.py list_for_search: the chart entries to match
    appYear,     \* year hint of the run ("" in blend mode)
    idx,         \* entries matched so far (loop index i - 1)
    appUris,     \* app.py uris
    appMissing,  \* app.py missing
    outcomes,    \* per processed entry: what search_best_track returned
    returned,    \* the search_best_track call that returned last
    search,      \* state of the running search_best_track call
    burst,       \* how many rate-limit answers in a row the catalog may give
    cover,       \* app.py upload_cover, uploaded and the stored result
    arg,         \* the argument a helper function is applied to
    out          \* what the helper function returned

vars == <<pc, playlists, nextId, calls, req, ret, before, nCalls, prev,
          chart, list_for_search, appYear, idx, appUris, appMissing, outcomes, returned, search, burst, cover, arg, out>>

playlistVars == <<playlists, nextId, calls, req, ret, before, nCalls, prev>>
matchVars == <<chart, list_for_search, appYear, idx, appUris, appMissing, outcomes,
               returned, search, burst>>
helperVars == <<arg, out>>

-----------------------------------------------------------------------------
(* Text helpers                                                            *)

Min(a, b) == IF a <= b THEN a ELSE b
Max(a, b) == IF a >= b THEN a ELSE b

Range(s) == {s[i] : i \in DOMAIN s}

\* string.ascii_uppercase and string.ascii_lowercase
UpperChars == <<"A","B","C","D","E","F","G","H","I","J","K","L","M",
                "N","O","P","Q","R","S","T","U","V","W","X","Y","Z">>
LowerChars == <<"a","b","c","d","e","f","g","h","i","j","k","l","m",
                "n","o","p","q","r","s","t","u","v","w","x","y","z">>

\* str.lower() on one character
LowerMap == [c \in Range(UpperChars) |->
                LowerChars[CHOOSE i \in DOMAIN UpperChars : UpperChars[i] = c]]

LowerChar(c) == IF c \in DOMAIN LowerMap THEN LowerMap[c] ELSE c

\* str.lower()
Lower(s) == [i \in DOMAIN s |-> LowerChar(s[i])]

\* the characters str.split() and str.strip() treat as whitespace
IsSpace(c) == c \in {" ", "\t", "\n"}

RECURSIVE LStrip(_)
LStrip(s) == IF s # <<>> /\ IsSpace(Head(s)) THEN LStrip(Tail(s)) ELSE s

RECURSIVE RStrip(_)
RStrip(s) ==
    IF s # <<>> /\ IsSpace(s[Len(s)]) THEN RStrip(SubSeq(s, 1, Len(s) - 1)) ELSE s

\* str.strip()
Strip(s) == RStrip(LStrip(s))

\* _unify_quotes: str.translate(_APOSTROPHE_FIX)
UnifyChar(c) ==
    CASE c \in {"lsquo", "rsquo"} -> "'"
      [] c \in {"ldquo", "rdquo"} -> "\""
      [] c \in {"ndash", "mdash"} -> "-"
      [] OTHER -> c

UnifyQuotes(s) == [i \in DOMAIN s |-> UnifyChar(s[i])]

\* re.sub(open [^close]* close, "", s): leftmost non-overlapping spans
RECURSIVE RemoveSpans(_, _, _)
RemoveSpans(s, open, close) ==
    IF s = <<>> THEN <<>>
    ELSE IF Head(s) = open /\ \E j \in 2..Len(s) : s[j] = close
         THEN LET j == CHOOSE k \in 2..Len(s) :
                          /\ s[k] = close
                          /\ \A m \in 2..(k - 1) : s[m] # close
              IN RemoveSpans(SubSeq(s, j + 1, Len(s)), open, close)
         ELSE <<Head(s)>> \o RemoveSpans(Tail(s), open, close)

\* _strip_brackets
StripBrackets(s) == RemoveSpans(RemoveSpans(s, "(", ")"), "[", "]")

\* " ".join(text.split()): the words of s, one space between them
RECURSIVE JoinWords(_, _)
JoinWords(s, started) ==
    LET t == LStrip(s) IN
    IF t = <<>> THEN <<>>
    ELSE LET n == IF \E i \in DOMAIN t : IsSpace(t[i])
                  THEN (CHOOSE i \in DOMAIN t :
                            IsSpace(t[i]) /\ \A m \in 1..(i - 1) : ~IsSpace(t[m])) - 1
                  ELSE Len(t)
         IN (IF started THEN <<" ">> ELSE <<>>)
                \o SubSeq(t, 1, n) \o JoinWords(SubSeq(t, n + 1, Len(t)), TRUE)

\* _collapse_spaces
CollapseSpaces(s) == Strip(JoinWords(s, FALSE))

\* _sanitize_title
SanitizeTitle(title) == CollapseSpaces(StripBrackets(UnifyQuotes(title)))

\* does pattern p (already lowercase) match s at position i, ignoring case
MatchesAt(s, i, p) ==
    /\ i + Len(p) - 1 <= Len(s)
    /\ \A k \in 1..Len(p) : LowerChar(s[i + k - 1]) = p[k]

\* alternatives in which the ampersand needs a space on either side
SplitAlternativesSpaced ==
    << <<",">>, <<" ","&"," ">>, <<" ","x"," ">>, <<"times">>,
       <<" ","w","i","t","h"," ">>, <<" ","a","n","d"," ">>,
       <<" ","f","e","a","t",".">>,
       <<" ","f","e","a","t","u","r","i","n","g"," ">>,
       <<" ","f","t",".">>, <<"+">> >>

\* the alternatives of _SPLIT_RE, in the order the pattern lists them
SplitAlternatives ==
    << <<",">>, <<"&">>, <<" ","x"," ">>, <<"times">>,
       <<" ","w","i","t","h"," ">>, <<" ","a","n","d"," ">>,
       <<" ","f","e","a","t",".">>,
       <<" ","f","e","a","t","u","r","i","n","g"," ">>,
       <<" ","f","t",".">>, <<"+">> >>

\* _SPLIT_RE matches at position i: \s* then one alternative
SplitMatchesAt(s, i) ==
    \E k \in i..(Len(s) + 1) :
        /\ \A m \in i..(k - 1) : IsSpace(s[m])
        /\ \E a \in DOMAIN SplitAlternatives : MatchesAt(s, k, SplitAlternatives[a])

\* _primary_artist
PrimaryArtist(artist) ==
    LET a == CollapseSpaces(UnifyQuotes(artist)) IN
    IF a = <<>> THEN a
    ELSE IF \E i \in DOMAIN a : SplitMatchesAt(a, i)
         THEN LET i == CHOOSE k \in DOMAIN a :
                          /\ SplitMatchesAt(a, k)
                          /\ \A m \in 1..(k - 1) : ~SplitMatchesAt(a, m)
              IN SubSeq(a, 1, i - 1)
         ELSE a

\* length of the separator of re.split(r"/|\s\|\s") at position i, 0 if none
TitleSepAt(s, i) ==
    IF s[i] = "/" THEN 1
    ELSE IF i + 2 <= Len(s) /\ IsSpace(s[i]) /\ s[i + 1] = "|" /\ IsSpace(s[i + 2])
         THEN 3 ELSE 0

\* re.split(r"/|\s\|\s", s); cur is the part being collected
RECURSIVE SplitTitle(_, _, _)
SplitTitle(s, i, cur) ==
    IF i > Len(s) THEN <<cur>>
    ELSE IF TitleSepAt(s, i) > 0
         THEN <<cur>> \o SplitTitle(s, i + TitleSepAt(s, i), <<>>)
         ELSE SplitTitle(s, i + 1, Append(cur, s[i]))

\* for p in parts: if p not in cands: cands.append(p)
RECURSIVE AppendNew(_, _)
AppendNew(cands, parts) ==
    IF parts = <<>> THEN cands
    ELSE AppendNew(IF Head(parts) \in Range(cands) THEN cands
                   ELSE Append(cands, Head(parts)), Tail(parts))

RECURSIVE KeptParts(_)
KeptParts(parts) ==
    IF parts = <<>> THEN <<>>
    ELSE (IF Head(parts) # <<>> /\ Len(Strip(Head(parts))) > 1
          THEN <<Strip(Head(parts))>> ELSE <<>>) \o KeptParts(Tail(parts))

HasTitleSep(s) ==
    \/ \E i \in DOMAIN s : s[i] = "/"
    \/ \E i \in DOMAIN s : i + 2 <= Len(s) /\ s[i] = " " /\ s[i + 1] = "|" /\ s[i + 2] = " "

\* _title_candidates
TitleCandidates(want_title) ==
    LET base == SanitizeTitle(want_title) IN
    IF HasTitleSep(base)
    THEN AppendNew(<<base>>, KeptParts(SplitTitle(base, 1, <<>>)))
    ELSE <<base>>

-----------------------------------------------------------------------------
(* The catalog's playlists and the playlist helpers of SpotifyClient.      *)
(* A playlist is [id, name, public, description, tracks]; ids are positive *)
(* and 0 stands for None.  An operation is evaluated call by call on an    *)
(* execution record st:                                                    *)
(*   pls    the catalog's playlists so far                                 *)
(*   calls  the catalog calls issued so far                                *)
(*   n      how many of them could raise to the caller                     *)
(*   raised a call raised and the operation was abandoned there            *)
(* A fault [details, at] is what the catalog does wrong during one         *)
(* operation: details = the playlist_change_details call fails, at = k > 0 *)
(* = the k-th other catalog call raises.                                   *)

PageLimit == 50      \* _iter_my_playlists(limit=50)
ReplaceMax == 100    \* replace_items: uris[:100]
Chunk == 100         \* add_items_chunked(chunk=100)

NoFault == [details |-> FALSE, at |-> 0]

Start(pls) == [pls |-> pls, calls |-> <<>>, n |-> 0, raised |-> FALSE]

\* the next raising call of the operation is the one the fault hits
Hit(st, fault) == st.n + 1 = fault.at

Ids(pls) == {pls[i].id : i \in DOMAIN pls}

IndexOf(pls, pid) == CHOOSE i \in DOMAIN pls : pls[i].id = pid

Take(s, n) == SubSeq(s, 1, Min(n, Len(s)))
Drop(s, n) == SubSeq(s, n + 1, Len(s))

\* sp.playlist_add_items(playlist_id, items): the catalog appends items
CatalogAddItems(st, pid, items, fault) ==
    LET log == Append(st.calls, [op |-> "add", pid |-> pid, items |-> items,
                                 ok |-> ~Hit(st, fault)])
    IN IF Hit(st, fault)
       THEN [st EXCEPT !.calls = log, !.n = @ + 1, !.raised = TRUE]
       ELSE [st EXCEPT !.calls = log, !.n = @ + 1,
                       !.pls[IndexOf(st.pls, pid)].tracks = @ \o items]

\* sp.playlist_replace_items(playlist_id, items): the catalog sets the tracks
CatalogReplaceItems(st, pid, items, fault) ==
    LET log == Append(st.calls, [op |-> "replace", pid |-> pid, items |-> items,
                                 ok |-> ~Hit(st, fault)])
    IN IF Hit(st, fault)
       THEN [st EXCEPT !.calls = log, !.n = @ + 1, !.raised = TRUE]
       ELSE [st EXCEPT !.calls = log, !.n = @ + 1,
                       !.pls[IndexOf(st.pls, pid)].tracks = items]

\* an add_items_chunked that sends all of uris as one batch
AddItemsAtOnce(st, pid, uris, chunk, fault) ==
    IF uris = <<>> THEN st ELSE CatalogAddItems(st, pid, uris, fault)

\* add_items_chunked: a full batch is sent as soon as it holds chunk items,
\* what is left after the loop is sent if it is not empty
RECURSIVE AddItemsChunked(_, _, _, _, _)
AddItemsChunked(st, pid, uris, chunk, fault) ==
    IF st.raised \/ uris = <<>> THEN st
    ELSE AddItemsChunked(CatalogAddItems(st, pid, Take(uris, chunk), fault),
                         pid, Drop(uris, chunk), chunk, fault)

\* a replace_items that appends uris to what the playlist holds
ReplaceAsAppend(st, pid, uris, fault) == AddItemsChunked(st, pid, uris, Chunk, fault)

\* replace_items
ReplaceItems(st, pid, uris, fault) ==
    LET first == Take(uris, ReplaceMax)
        rest  == Drop(uris, ReplaceMax)
        st1   == CatalogReplaceItems(st, pid, first, fault)
    IN IF st1.raised \/ rest = <<>> THEN st1
       ELSE AddItemsChunked(st1, pid, rest, Chunk, fault)

\* sp.current_user_playlists(limit, offset)
CatalogPage(pls, limit, offset) ==
    [items |-> SubSeq(pls, offset + 1, Min(offset + limit, Len(pls))),
     total |-> Len(pls)]

\* a comparison that does not strip the playlist's name
NameMatchesUnstripped(it, target) == Lower(it.name) = target

\* find_playlist_by_name line 153: the comparison of one playlist's name
NameMatches(it, target) == Lower(Strip(it.name)) = target

\* _iter_my_playlists consumed by the loop of find_playlist_by_name: pages are
\* fetched one by one until an item matches; pid = 0 when none did
RECURSIVE IterMyPlaylists(_, _, _, _, _)
IterMyPlaylists(st, limit, offset, target, fault) ==
    LET page  == CatalogPage(st.pls, limit, offset)
        items == page.items
        log   == Append(st.calls, [op |-> "list", offset |-> offset,
                                   ids |-> [i \in DOMAIN items |-> items[i].id],
                                   ok |-> ~Hit(st, fault)])
        st1   == [pls |-> st.pls, calls |-> log, n |-> st.n + 1,
                  raised |-> Hit(st, fault), pid |-> 0]
    IN IF Hit(st, fault) \/ items = <<>> THEN st1
       ELSE IF \E i \in DOMAIN items : NameMatches(items[i], target)
            THEN [st1 EXCEPT !.pid =
                     items[CHOOSE i \in DOMAIN items :
                              /\ NameMatches(items[i], target)
                              /\ \A j \in 1..(i - 1) : ~NameMatches(items[j], target)].id]
            ELSE IF offset + Len(items) >= page.total THEN st1
                 ELSE IterMyPlaylists([pls |-> st1.pls, calls |-> st1.calls,
                                       n |-> st1.n, raised |-> FALSE],
                                      limit, offset + Len(items), target, fault)

\* a lookup that finds nothing
FindNothing(st, name, fault) == IterMyPlaylists(st, PageLimit, 0, <<"#">>, fault)

\* find_playlist_by_name
FindPlaylistByName(st, name, fault) ==
    IterMyPlaylists(st, PageLimit, 0, Lower(Strip(name)), fault)

\* sp.playlist_change_details(pid, name, public, description)
CatalogChangeDetails(st, pid, name, public, description, fault) ==
    LET log == Append(st.calls, [op |-> "details", pid |-> pid, ok |-> ~fault.details])
    IN IF fault.details THEN [st EXCEPT !.calls = log]
       ELSE [st EXCEPT !.calls = log,
                       !.pls[IndexOf(st.pls, pid)].name = name,
                       !.pls[IndexOf(st.pls, pid)].public = public,
                       !.pls[IndexOf(st.pls, pid)].description = description]

\* where the catalog may list a playlist created by this operation
Positions(pls, name) ==
    IF \E i \in DOMAIN pls : NameMatches(pls[i], Lower(Strip(name)))
    THEN {TRUE} ELSE BOOLEAN

\* create_playlist: sp.user_playlist_create; the catalog lists the new
\* playlist first or last
CreatePlaylist(st, newId, name, public, description, atFront, fault) ==
    LET log == Append(st.calls, [op |-> "create", pid |-> newId, ok |-> ~Hit(st, fault)])
        new == [id |-> newId, name |-> name, public |-> public,
                description |-> description, tracks |-> <<>>]
    IN IF Hit(st, fault)
       THEN [st EXCEPT !.calls = log, !.n = @ + 1, !.raised = TRUE]
       ELSE [st EXCEPT !.calls = log, !.n = @ + 1,
                       !.pls = IF atFront THEN <<new>> \o @ ELSE Append(@, new)]

\* a details step whose failure abandons the operation
SyncDetailsFatal(st, pid, name, public, description, fault) ==
    [CatalogChangeDetails(st, pid, name, public, description, fault)
        EXCEPT !.raised = fault.details]

\* lines 169-172: the details call inside try/except Exception
SyncDetails(st, pid, name, public, description, fault) ==
    CatalogChangeDetails(st, pid, name, public, description, fault)

\* upsert_playlist_with_items; the result is the execution record with
\* ret = [status, pid, created]
UpsertPlaylistWithItems(pls, newId, name, public, description, uris, replace, atFront, fault) ==
    LET f == FindPlaylistByName(Start(pls), name, fault)
        s0 == [pls |-> f.pls, calls |-> f.calls, n |-> f.n, raised |-> f.raised]
        Out(st, pid, created) ==
            [pls |-> st.pls, calls |-> st.calls,
             ret |-> IF st.raised
                     THEN [status |-> "raised", pid |-> 0, created |-> FALSE]
                     ELSE [status |-> "ok", pid |-> pid, created |-> created]]
    IN IF f.raised THEN Out(s0, 0, FALSE)
       ELSE IF f.pid # 0
            THEN LET s1 == SyncDetails(s0, f.pid, name, public, description, fault)
                     s2 == IF s1.raised THEN s1
                           ELSE IF replace THEN ReplaceItems(s1, f.pid, uris, fault)
                           ELSE AddItemsChunked(s1, f.pid, uris, Chunk, fault)
                 IN Out(s2, f.pid, FALSE)
            ELSE LET s1 == CreatePlaylist(s0, newId, name, public, description,
                                          atFront, fault)
                     s2 == IF s1.raised \/ uris = <<>> THEN s1
                           ELSE AddItemsChunked(s1, newId, uris, Chunk, fault)
                 IN Out(s2, newId, TRUE)

-----------------------------------------------------------------------------
(* Scoring: difflib.SequenceMatcher(None, a, b).ratio() = 2 * M / T, with M *)
(* the characters in the matching blocks found by longest-common-substring  *)
(* recursion and T the total length.  Ratios and scores are exact fractions *)
(* [num, den] with den > 0.                                                 *)

\* a[i .. i+k-1] = b[j .. j+k-1]
CommonAt(a, b, i, j, k) ==
    /\ i + k - 1 <= Len(a)
    /\ j + k - 1 <= Len(b)
    /\ \A m \in 0..(k - 1) : a[i + m] = b[j + m]

\* some block of k characters is shared
HasBlock(a, b, k) ==
    \E i \in 1..(Len(a) - k + 1), j \in 1..(Len(b) - k + 1) : CommonAt(a, b, i, j, k)

\* the size of the longest shared block, searched upwards from k
RECURSIVE LongestFrom(_, _, _)
LongestFrom(a, b, k) ==
    IF k <= Min(Len(a), Len(b)) /\ HasBlock(a, b, k) THEN LongestFrom(a, b, k + 1)
    ELSE k - 1

\* a block of k characters starts at a[i]
StartsInA(a, b, i, k) == \E j \in 1..(Len(b) - k + 1) : CommonAt(a, b, i, j, k)

\* the block of k characters at a[i] that is earliest in b
EarliestInB(a, b, i, k) ==
    <<i, CHOOSE x \in 1..(Len(b) - k + 1) :
             /\ CommonAt(a, b, i, x, k)
             /\ \A y \in 1..(x - 1) : ~CommonAt(a, b, i, y, k),
      k>>

\* the block of k characters that is earliest in a, then earliest in b
EarliestBlock(a, b, k) ==
    IF k = 0 THEN <<1, 1, 0>>
    ELSE EarliestInB(a, b,
                     CHOOSE x \in 1..(Len(a) - k + 1) :
                         /\ StartsInA(a, b, x, k)
                         /\ \A y \in 1..(x - 1) : ~StartsInA(a, b, y, k),
                     k)

\* SequenceMatcher.find_longest_match: the longest block, earliest in a, then
\* earliest in b; <<i, j, k>> with k = 0 when no character is shared
LongestMatch(a, b) == EarliestBlock(a, b, LongestFrom(a, b, 1))

\* SequenceMatcher.get_matching_blocks: total size of the matching blocks,
\* the longest block x and those found left and right of it
RECURSIVE MatchingChars(_, _)
RECURSIVE AroundBlock(_, _, _)
AroundBlock(a, b, x) ==
    IF x[3] = 0 THEN 0
    ELSE x[3]
         + MatchingChars(SubSeq(a, 1, x[1] - 1), SubSeq(b, 1, x[2] - 1))
         + MatchingChars(SubSeq(a, x[1] + x[3], Len(a)),
                         SubSeq(b, x[2] + x[3], Len(b)))

MatchingChars(a, b) ==
    IF a = <<>> \/ b = <<>> THEN 0 ELSE AroundBlock(a, b, LongestMatch(a, b))

\* _similar
Similar(a, b) ==
    IF Len(a) + Len(b) = 0 THEN [num |-> 1, den |-> 1]
    ELSE [num |-> 2 * MatchingChars(Lower(a), Lower(b)), den |-> Len(a) + Len(b)]

\* line 191: (0.6 * s_title) + (0.25 * s_artist) + (0.15 * pop_norm)
Weighted(s_title, s_artist, popularity) ==
    [num |-> 1200 * s_title.num * s_artist.den
                + 500 * s_artist.num * s_title.den
                + 3 * popularity * s_title.den * s_artist.den,
     den |-> 2000 * s_title.den * s_artist.den]

\* _score_candidate
ScoreCandidate(cand_title, cand_artists, want_title, want_artist, popularity) ==
    Weighted(Similar(want_title, cand_title),
             IF want_artist # <<>> THEN Similar(want_artist, cand_artists)
             ELSE [num |-> 1, den |-> 2],
             popularity)

\* a comparison that also holds between equal scores
GreaterOrEqual(x, y) == x.num * y.den >= y.num * x.den

\* score > best_score
Greater(x, y) == x.num * y.den > y.num * x.den

\* ", ".join(a["name"] for a in it["artists"])
RECURSIVE JoinArtists(_)
JoinArtists(names) ==
    IF names = <<>> THEN <<>>
    ELSE IF Len(names) = 1 THEN Head(names)
         ELSE Head(names) \o <<",", " ">> \o JoinArtists(Tail(names))

None == "None"

\* the score search_best_track gives one item (lines 235-237)
ItemScore(it, norm_t, primary) ==
    ScoreCandidate(SanitizeTitle(it.name), JoinArtists(it.artists), norm_t, primary,
                   it.popularity)

\* lines 232-240: the loop over items, from (best_uri, best_score)
RECURSIVE SelectBest(_, _, _, _, _)
RECURSIVE Scored(_, _, _, _, _, _)
Scored(items, norm_t, primary, best_uri, best_score, score) ==
    IF Greater(score, best_score)
    THEN SelectBest(Tail(items), norm_t, primary, Head(items).uri, score)
    ELSE SelectBest(Tail(items), norm_t, primary, best_uri, best_score)

SelectBest(items, norm_t, primary, best_uri, best_score) ==
    IF items = <<>> THEN best_uri
    ELSE Scored(items, norm_t, primary, best_uri, best_score,
                ItemScore(Head(items), norm_t, primary))

\* a selection that takes the first item whatever its score
BestUriFirst(items, norm_t, primary) == Head(items).uri

BestUri(items, norm_t, primary) ==
    SelectBest(items, norm_t, primary, None, [num |-> -1, den |-> 1])

-----------------------------------------------------------------------------
(* Query generation.  A query is the text of the f-string, as tokens.      *)

\* the fixed text of the f-strings of lines 217-221
TrackOpen == <<"t","r","a","c","k",":","\"">>
ArtistOpen == <<"\""," ","a","r","t","i","s","t",":","\"">>
YearOpen == <<" ","y","e","a","r",":">>
Quote == <<"\"">>

\* a _queries that tries the year before the artist
QueriesYearFirst(t, primary, year) ==
    (IF year # <<>>
     THEN (IF primary # <<>>
           THEN << TrackOpen \o t \o ArtistOpen \o primary \o Quote \o YearOpen \o year >>
           ELSE <<>>)
          \o << TrackOpen \o t \o Quote \o YearOpen \o year >>
     ELSE <<>>)
    \o (IF primary # <<>>
        THEN << TrackOpen \o t \o ArtistOpen \o primary \o Quote >>
        ELSE <<>>)
    \o << TrackOpen \o t \o Quote >>

\* search_best_track._queries
Queries(t, primary, year) ==
    (IF primary # <<>>
     THEN (IF year # <<>>
           THEN << TrackOpen \o t \o ArtistOpen \o primary \o Quote \o YearOpen \o year >>
           ELSE <<>>)
          \o << TrackOpen \o t \o ArtistOpen \o primary \o Quote >>
     ELSE <<>>)
    \o (IF year # <<>>
        THEN << TrackOpen \o t \o Quote \o YearOpen \o year >>
        ELSE <<>>)
    \o << TrackOpen \o t \o Quote >>

\* every query search_best_track can issue for one entry, in loop order
RECURSIVE QueriesFrom(_, _, _, _)
QueriesFrom(title_opts, k, primary, year) ==
    IF k > Len(title_opts) THEN <<>>
    ELSE Queries(SanitizeTitle(title_opts[k]), primary, year)
             \o QueriesFrom(title_opts, k + 1, primary, year)

AllQueries(title, artist, year) ==
    QueriesFrom(TitleCandidates(title), 1, PrimaryArtist(artist), year)

-----------------------------------------------------------------------------
(* What the environment supplies: chart entries, catalog answers, the      *)
(* caller's playlists, the arguments of the calls and the catalog's faults. *)

MaxEntries == 2     \* chart entries of one run
MaxLib == 2         \* playlists the caller starts with
MaxCalls == 2       \* playlist operations of one client
MaxFaultAt == 3     \* the catalog call that raises is one of the first MaxFaultAt
MaxLen == 250       \* length of a uris argument of replace_items

EntryKinds ==
    { [title |-> <<"a","b">>, artist |-> <<"A"," ","&"," ","B">>],
      [title |-> <<"a","b","/","c","d">>, artist |-> <<>>],
      [title |-> <<"c","d"," ","(","x",")">>, artist |-> <<"A">>] }

\* fetch_hot100 and _interleave_unique return no entry twice and rank 1..N
Charts ==
    UNION { { [i \in 1..n |-> [rank |-> i, title |-> f[i].title, artist |-> f[i].artist]] :
                f \in {g \in [1..n -> EntryKinds] :
                          \A i, j \in 1..n : i # j => g[i] # g[j]} } :
            n \in 0..MaxEntries }

\* three entries of one or two queries each: the chart of the ordering runs
OrderCharts ==
    { << [rank |-> 1, title |-> <<"a","b">>, artist |-> <<>>],
         [rank |-> 2, title |-> <<"c","d">>, artist |-> <<>>],
         [rank |-> 3, title |-> <<"a">>, artist |-> <<>>] >> }

\* one query, whatever the year: the chart of the sustained rate-limit runs
SustainedCharts ==
    { <<>>, << [rank |-> 1, title |-> <<"a","b">>, artist |-> <<>>] >> }

K1 == [uri |-> "u1", name |-> <<"a","b">>, artists |-> << <<"A">> >>, popularity |-> 40]
K2 == [uri |-> "u2", name |-> <<"a","b">>, artists |-> << <<"A">> >>, popularity |-> 90]
K3 == [uri |-> "u3", name |-> <<"c","d">>, artists |-> << <<"B">>, <<"C">> >>,
       popularity |-> 40]
K4 == [uri |-> "u4", name |-> <<"A","b"," ","[","x","]">>, artists |-> << <<"a">> >>,
       popularity |-> 40]

\* the result sets the catalog answers a search with
ItemLists == { <<>>, <<K3>>, <<K1, K2>>, <<K2, K1>>, <<K1, K4>> }

\* the Retry-After header of a 429 answer: absent, or a number of seconds
RetryHeaders == { <<>>, <<1>> }

Faults == [details : BOOLEAN, at : 0..MaxFaultAt]

TrackUris == <<"u1", "u2", "u3">>

\* a uris argument of n items, with repeated items
UriList(n, s) == [i \in 1..n |-> TrackUris[((i + s) % 3) + 1]]

\* the uris arguments of the upserting client
UpsertUris == { <<>>, UriList(2, 0), UriList(Chunk + 1, 1) }

OldTracks == <<"u9", "u1">>

Playlist(id, name) ==
    [id |-> id, name |-> name, public |-> FALSE, description |-> "old",
     tracks |-> OldTracks]

LibNames == { <<"x">>, <<" ","X">>, <<"x","y">> }

\* the caller's playlists: any names, ids 1..n
Libraries ==
    UNION { { [i \in 1..n |-> Playlist(i, f[i])] : f \in [1..n -> LibNames] } :
            n \in 0..MaxLib }

\* libraries of more than one page: fillers around the named playlists
PagedLibraries ==
    { [i \in 1..(n + Len(lib)) |->
          IF i <= k THEN Playlist(i, <<"f">>)
          ELSE IF i <= k + Len(lib) THEN [lib[i - k] EXCEPT !.id = i]
          ELSE Playlist(i, <<"f">>)] :
        lib \in Libraries, k \in {0, PageLimit - 1, PageLimit},
        n \in {PageLimit - 1, PageLimit, 2 * PageLimit} }

\* the playlists of the user who submits the form
AppLibraries == { <<>>, <<Playlist(1, <<"x">>)>> }

RequestNames == { <<"X">>, <<"x"," ">>, <<"y">> }

CustomNames == { <<>>, <<" ","X">> }

-----------------------------------------------------------------------------
(* The catalog search gateway and the matcher, one catalog answer per step. *)
(* search is the running search_best_track call:                            *)
(*   title_opts, primary, year   its locals                                 *)
(*   t, q     position of the two loops (title candidate, query)            *)
(*   call     arguments of the active _run_query frame                      *)
(*   depth    nested _run_query frames below the one the loop called        *)
(*   issued   the queries the loop handed to _run_query so far              *)
(*   results  the items the loop got back for each of them                  *)
(*   last     the last sp.search call and the catalog's answer              *)

SearchLimit == 10        \* _run_query(q, limit=10)
DefaultRetryAfter == 2   \* headers.get("Retry-After", 2)
RecursionLimit == 1000   \* CPython's limit on nested frames: _run_query calls
                         \* itself once per rate-limit answer (line 202)

MaxBurst == 2            \* rate-limit answers in a row of a catalog that recovers

NoCall == [q |-> <<>>, limit |-> 0]
NoAttempt == [q |-> <<>>, limit |-> 0, ans |-> "none", slept |-> 0]

Idle == [active |-> FALSE, title_opts |-> <<>>, primary |-> <<>>, year |-> <<>>,
         t |-> 0, q |-> 0, call |-> NoCall, depth |-> 0,
         issued |-> <<>>, results |-> <<>>, last |-> NoAttempt]

\* app.py line 185-186: the year argument of search_best_track
YearArg(yr) == IF yr # <<>> THEN yr ELSE <<>>

CurQueries(s) == Queries(SanitizeTitle(s.title_opts[s.t]), s.primary, s.year)

Exhausted(s) == s.q = Len(CurQueries(s)) /\ s.t = Len(s.title_opts)

\* the loops are at (t2, q2): _run_query is called with that query
CallQuery(s, t2, q2, nq) ==
    [s EXCEPT !.t = t2, !.q = q2, !.call = [q |-> nq, limit |-> SearchLimit],
              !.depth = 0, !.issued = Append(@, nq)]

QueryAt(s, t2, q2) ==
    CallQuery(s, t2, q2, Queries(SanitizeTitle(s.title_opts[t2]), s.primary, s.year)[q2])

\* search_best_track lines 210-227, up to the first _run_query call
StartSearch(title, artist, yr) ==
    QueryAt([active |-> TRUE, title_opts |-> TitleCandidates(title),
             primary |-> PrimaryArtist(artist), year |-> yr, t |-> 0, q |-> 0,
             call |-> NoCall, depth |-> 0, issued |-> <<>>, results |-> <<>>,
             last |-> NoAttempt], 1, 1)

\* the two for loops move on to the next query and call _run_query with it
NextQuery(s) ==
    IF s.q < Len(CurQueries(s)) THEN QueryAt(s, s.t, s.q + 1)
    ELSE QueryAt(s, s.t + 1, 1)

\* line 228: items = (res or {}).get("tracks", {}).get("items", [])
ItemsOf(res) == IF res.none THEN <<>> ELSE res.tracks.items

\* a matcher that scores a non-empty result but moves on to the next query
DecideExhaustive(s, items, best) ==
    IF Exhausted(s)
    THEN [kind |-> "return", uri |-> IF items # <<>> THEN best ELSE None, s |-> s]
    ELSE [kind |-> "next", uri |-> None, s |-> NextQuery(s)]

\* lines 229-243 once the items of a result are scored: "return" with the
\* uri, "none" when the loops are exhausted, "next" with the next query called
Decide(s, items, best) ==
    IF items # <<>> /\ best # None /\ best # ""
    THEN [kind |-> "return", uri |-> best, s |-> s]
    ELSE IF Exhausted(s) THEN [kind |-> "return", uri |-> None, s |-> s]
         ELSE [kind |-> "next", uri |-> None, s |-> NextQuery(s)]

\* lines 228-243 for the items of one _run_query result
Body(s, items) ==
    Decide([s EXCEPT !.results = Append(@, items)], items,
           IF items = <<>> THEN None
           ELSE BestUri(items, SanitizeTitle(s.title_opts[s.t]), s.primary))

LoopBody(s, res) == Body(s, ItemsOf(res))

\* line 199: retry_after = int(headers.get("Retry-After", 2))
RetryAfter(h) == IF h = <<>> THEN DefaultRetryAfter ELSE h[1]

\* line 202: the arguments of the recursive call
RetryCall(call) == [q |-> call.q, limit |-> call.limit]

\* a gateway that answers a failure with a result set of its own
FailureAsHit(kind) == [none |-> FALSE, tracks |-> [items |-> <<K3>>]]

\* _run_query lines 203-207: what a failure that is no rate limit returns
FailureResult(kind) == [none |-> TRUE]

\* sp.search(q, type="track", limit): at most limit items come back
CatalogSearch(items, limit) ==
    [none |-> FALSE, tracks |-> [items |-> Take(items, limit)]]

\* a loop that puts each matched uri in front of the list
AfterSearchPrepend(r) ==
    /\ outcomes' = Append(outcomes, r.uri)
    /\ returned' = [entry |-> idx + 1, uri |-> r.uri, issued |-> r.s.issued,
                    results |-> r.s.results, last |-> r.s.last]
    /\ appUris' = IF r.uri # None THEN <<r.uri>> \o appUris ELSE appUris
    /\ appMissing' = IF r.uri # None THEN appMissing
                     ELSE Append(appMissing, list_for_search[idx + 1])
    /\ idx' = idx + 1
    /\ search' = Idle

\* app.py lines 186-187 once search_best_track has returned uri for entry idx+1
AfterSearch(r) ==
    /\ outcomes' = Append(outcomes, r.uri)
    /\ returned' = [entry |-> idx + 1, uri |-> r.uri, issued |-> r.s.issued,
                    results |-> r.s.results, last |-> r.s.last]
    /\ appUris' = IF r.uri # None THEN Append(appUris, r.uri) ELSE appUris
    /\ appMissing' = IF r.uri # None THEN appMissing
                     ELSE Append(appMissing, list_for_search[idx + 1])
    /\ idx' = idx + 1
    /\ search' = Idle

Proceed(r) ==
    IF r.kind = "next"
    THEN search' = r.s /\ UNCHANGED <<outcomes, returned, appUris, appMissing, idx>>
    ELSE AfterSearch(r)

\* the loop body applied to a _run_query result, then the caller's lines
Resume(s, res) == Proceed(LoopBody(s, res))

Attempt(ans, slept) ==
    [q |-> search.call.q, limit |-> search.call.limit, ans |-> ans, slept |-> slept]

\* app.py line 186: the loop calls search_best_track for the next entry
CallSearch ==
    /\ pc = "match" /\ ~search.active /\ idx < Len(list_for_search)
    /\ search' = StartSearch(list_for_search[idx + 1].title,
                             list_for_search[idx + 1].artist, YearArg(appYear))
    /\ UNCHANGED <<pc, chart, list_for_search, appYear, idx, appUris, appMissing,
                   outcomes, returned, burst>>
    /\ UNCHANGED playlistVars
    /\ UNCHANGED <<cover, helperVars>>

\* _run_query lines 197-202: the catalog answers 429; sleep, then call again
QueryRateLimited ==
    /\ pc = "match" /\ search.active
    /\ search.depth < burst /\ search.depth < RecursionLimit
    /\ \E h \in RetryHeaders :
          search' = [search EXCEPT !.last = Attempt("429", RetryAfter(h)),
                                   !.call = RetryCall(search.call),
                                   !.depth = @ + 1]
    /\ UNCHANGED <<pc, chart, list_for_search, appYear, idx, appUris, appMissing,
                   outcomes, returned, burst>>
    /\ UNCHANGED playlistVars
    /\ UNCHANGED <<cover, helperVars>>

\* _run_query lines 203-207: a catalog error that is no 429, or any other
\* exception of the call
QueryFails ==
    /\ pc = "match" /\ search.active /\ search.depth <= MaxBurst
    /\ \E kind \in {"SpotifyException", "Exception"} :
          Resume([search EXCEPT !.last = Attempt(kind, 0)], FailureResult(kind))
    /\ UNCHANGED <<pc, chart, list_for_search, appYear, burst>>
    /\ UNCHANGED playlistVars
    /\ UNCHANGED <<cover, helperVars>>

\* _run_query line 196 returns the catalog's response
QueryAnswered ==
    /\ pc = "match" /\ search.active /\ search.depth <= MaxBurst
    /\ \E items \in ItemLists :
          Resume([search EXCEPT !.last = Attempt("ok", 0)],
                 CatalogSearch(items, search.call.limit))
    /\ UNCHANGED <<pc, chart, list_for_search, appYear, burst>>
    /\ UNCHANGED playlistVars
    /\ UNCHANGED <<cover, helperVars>>

\* the frame limit is reached under an unbroken run of 429 answers: the
\* RecursionError is raised inside the try block (line 195-196), where
\* "except Exception" turns it into None, or by the call of line 202 inside
\* the except block, from where it leaves every frame of _run_query
QueryOverflow ==
    /\ pc = "match" /\ search.active /\ search.depth = RecursionLimit
    /\ \/ /\ Resume([search EXCEPT !.last = Attempt("RecursionError", 0)],
                    FailureResult("Exception"))
          /\ UNCHANGED pc
       \/ /\ pc' = "failed_match"
          /\ search' = [search EXCEPT !.last = Attempt("RecursionError", 0)]
          /\ UNCHANGED <<outcomes, returned, appUris, appMissing, idx>>
    /\ UNCHANGED <<chart, list_for_search, appYear, burst>>
    /\ UNCHANGED playlistVars
    /\ UNCHANGED <<cover, helperVars>>

-----------------------------------------------------------------------------
(* The submitted workflow of app.py                                        *)

Year1 == <<"1","9","9","7">>

\* app.py lines 156-175: the chart(s) are fetched; blend mode sets year = None
FetchChart ==
    /\ pc = "fetch"
    /\ \E blend \in BOOLEAN :
          appYear' = IF blend THEN <<>> ELSE Year1
    /\ list_for_search' = chart
    /\ pc' = "connect"
    /\ UNCHANGED <<chart, idx, appUris, appMissing, outcomes, returned, search, burst>>
    /\ UNCHANGED playlistVars
    /\ UNCHANGED <<cover, helperVars>>

\* fetch_hot100 raises once its retries are used up
FetchChartFails ==
    /\ pc = "fetch"
    /\ pc' = "failed_fetch"
    /\ UNCHANGED matchVars
    /\ UNCHANGED playlistVars
    /\ UNCHANGED <<cover, helperVars>>

\* app.py line 179: SpotifyClient(...)
Connect ==
    /\ pc = "connect"
    /\ pc' = "match"
    /\ UNCHANGED matchVars
    /\ UNCHANGED playlistVars
    /\ UNCHANGED <<cover, helperVars>>

\* SpotifyClient.__init__ raises: missing credentials, failed authentication
ConnectFails ==
    /\ pc = "connect"
    /\ pc' = "failed_connect"
    /\ UNCHANGED matchVars
    /\ UNCHANGED playlistVars
    /\ UNCHANGED <<cover, helperVars>>

\* app.py line 201: [u for u in uris if isinstance(u, str)]
OnlyStr(us) == SelectSeq(us, LAMBDA u : u # None)

DefaultName == <<"H","o","t">>
Description == "Generated by hitcapsule."

\* app.py line 193
PlaylistName(custom_name) ==
    Strip(IF custom_name # <<>> THEN custom_name ELSE DefaultName)

\* the outcome of one playlist operation is stored
Apply(r, request) ==
    /\ playlists' = r.pls
    /\ calls' = r.calls
    /\ ret' = r.ret
    /\ req' = request
    /\ before' = playlists
    /\ nextId' = IF \E i \in DOMAIN r.calls : r.calls[i].op = "create"
                 THEN nextId + 1 ELSE nextId
    /\ nCalls' = nCalls + 1
    /\ prev' = [req |-> req, ret |-> ret, before |-> before]

Request(op, name, us, replace) ==
    [op |-> op, name |-> name, uris |-> us, replace |-> replace]

\* app.py lines 192-203: the playlist is created or updated
AppUpsert ==
    /\ pc = "match" /\ ~search.active /\ idx = Len(list_for_search)
    /\ \E custom_name \in CustomNames, make_public \in BOOLEAN, fault \in Faults :
          \E atFront \in Positions(playlists, PlaylistName(custom_name)) :
          LET name == PlaylistName(custom_name)
              r == UpsertPlaylistWithItems(playlists, nextId, name, make_public,
                                           Description, OnlyStr(appUris), TRUE,
                                           atFront, fault)
          IN /\ Apply(r, Request("upsert", name, OnlyStr(appUris), TRUE))
             /\ pc' = IF r.ret.status = "raised" THEN "failed_upsert" ELSE "url"
    /\ UNCHANGED matchVars
    /\ UNCHANGED <<cover, helperVars>>

\* app.py line 204: sp.get_playlist_url(pid)
GetPlaylistUrl ==
    /\ pc = "url"
    /\ pc' \in {"render", "failed_url"}
    /\ UNCHANGED matchVars
    /\ UNCHANGED playlistVars
    /\ UNCHANGED <<cover, helperVars>>

\* app.py lines 207-214: the cover and the poster are rendered
RenderImages ==
    /\ pc = "render"
    /\ pc' \in {"cover", "failed_render"}
    /\ UNCHANGED <<cover, helperVars>>
    /\ UNCHANGED matchVars
    /\ UNCHANGED playlistVars

\* what can go wrong in upload_cover_image: the catalog rejects the image, the
\* token lacks the ugc-image-upload scope, the image file cannot be read
CoverFailures == {"none", "rejected", "no_scope", "unreadable"}

\* upload_cover_image: open() and read() of line 127-128 are inside the try
\* block, whose only handler is for SpotifyException
UploadCoverImage(failure) ==
    IF failure = "unreadable" THEN [raised |-> TRUE, value |-> FALSE]
    ELSE IF failure \in {"rejected", "no_scope"} THEN [raised |-> FALSE, value |-> FALSE]
    ELSE [raised |-> FALSE, value |-> TRUE]

\* the upload returned or raised: uploaded is assigned, or the run ends
AfterUpload(failure, r) ==
    /\ cover' = [cover EXCEPT !.enabled = TRUE, !.failure = failure,
                              !.uploaded = r.value]
    /\ pc' = IF r.raised THEN "failed_cover" ELSE "store"

\* app.py lines 216-218: uploaded = False; if upload_cover: uploaded = ...
UploadCover ==
    /\ pc = "cover"
    /\ \E upload_cover \in BOOLEAN :
          IF upload_cover
          THEN \E failure \in CoverFailures :
                  AfterUpload(failure, UploadCoverImage(failure))
          ELSE cover' = [cover EXCEPT !.uploaded = FALSE] /\ pc' = "store"
    /\ UNCHANGED helperVars
    /\ UNCHANGED matchVars
    /\ UNCHANGED playlistVars

\* app.py lines 220-227: _store_result(..., uploaded=uploaded, done=True, ...)
StoreResult ==
    /\ pc = "store"
    /\ cover' = [cover EXCEPT !.stored = TRUE]
    /\ pc' = "done"
    /\ UNCHANGED helperVars
    /\ UNCHANGED matchVars
    /\ UNCHANGED playlistVars

-----------------------------------------------------------------------------
(* A client calling the playlist operations directly                       *)

\* upsert_playlist_with_items
ClientUpsert ==
    /\ pc = "client" /\ nCalls < MaxCalls
    /\ \E name \in RequestNames, us \in UpsertUris, replace \in BOOLEAN,
          fault \in Faults :
          \E atFront \in Positions(playlists, name) :
          LET r == UpsertPlaylistWithItems(playlists, nextId, name, TRUE,
                                           Description, us, replace, atFront, fault)
          IN Apply(r, Request("upsert", name, us, replace))
    /\ UNCHANGED pc
    /\ UNCHANGED matchVars
    /\ UNCHANGED <<cover, helperVars>>

\* find_playlist_by_name
ClientFind ==
    /\ pc = "find" /\ nCalls < MaxCalls
    /\ \E name \in RequestNames \cup {<<>>}, at \in 0..MaxFaultAt :
          LET f == FindPlaylistByName(Start(playlists), name,
                                      [details |-> FALSE, at |-> at])
          IN Apply([pls |-> f.pls, calls |-> f.calls,
                    ret |-> [status |-> IF f.raised THEN "raised" ELSE "ok",
                             pid |-> f.pid, created |-> FALSE]],
                   Request("find", name, <<>>, FALSE))
    /\ UNCHANGED pc
    /\ UNCHANGED matchVars
    /\ UNCHANGED <<cover, helperVars>>

Finish(st, op, pid, us) ==
    /\ Apply([pls |-> st.pls, calls |-> st.calls,
              ret |-> [status |-> IF st.raised THEN "raised" ELSE "ok",
                       pid |-> pid, created |-> FALSE]],
             Request(op, <<>>, us, op = "replace"))
    /\ pc' = "returned"

\* replace_items
ClientReplaceItems ==
    /\ pc = "items"
    /\ \E pid \in Ids(playlists), n \in 0..MaxLen, s \in 0..1, at \in 0..MaxFaultAt :
          Finish(ReplaceItems(Start(playlists), pid, UriList(n, s),
                              [details |-> FALSE, at |-> at]),
                 "replace", pid, UriList(n, s))
    /\ UNCHANGED matchVars
    /\ UNCHANGED <<cover, helperVars>>

\* add_items_chunked
ClientAddItemsChunked ==
    /\ pc = "items"
    /\ \E pid \in Ids(playlists), n \in 0..MaxLen, s \in 0..1, at \in 0..MaxFaultAt :
          Finish(AddItemsChunked(Start(playlists), pid, UriList(n, s), Chunk,
                                 [details |-> FALSE, at |-> at]),
                 "add", pid, UriList(n, s))
    /\ UNCHANGED matchVars
    /\ UNCHANGED <<cover, helperVars>>

-----------------------------------------------------------------------------
(* Specifications                                                          *)

NoReturn == [entry |-> 0, uri |-> None, issued |-> <<>>, results |-> <<>>,
             last |-> NoAttempt]

NoRet == [status |-> "none", pid |-> 0, created |-> FALSE]

NoCover == [enabled |-> FALSE, failure |-> "none", uploaded |-> FALSE, stored |-> FALSE]

InitCommon ==
    /\ nextId = Len(playlists) + 1
    /\ calls = <<>>
    /\ req = Request("none", <<>>, <<>>, FALSE)
    /\ ret = NoRet
    /\ before = playlists
    /\ nCalls = 0
    /\ prev = [req |-> req, ret |-> ret, before |-> before]
    /\ list_for_search = <<>>
    /\ appYear = <<>>
    /\ idx = 0
    /\ appUris = <<>>
    /\ appMissing = <<>>
    /\ outcomes = <<>>
    /\ returned = NoReturn
    /\ search = Idle
    /\ cover = NoCover

\* a run of the workflow against a catalog whose rate limiting ends
Init ==
    /\ pc = "fetch"
    /\ playlists \in AppLibraries
    /\ chart \in Charts
    /\ burst = MaxBurst
    /\ InitCommon
    /\ arg = <<>> /\ out = <<>>

Next ==
    \/ FetchChart \/ FetchChartFails \/ Connect \/ ConnectFails
    \/ CallSearch \/ QueryRateLimited \/ QueryFails \/ QueryAnswered
    \/ AppUpsert \/ GetPlaylistUrl
    \/ RenderImages \/ UploadCover \/ StoreResult

Spec == Init /\ [][Next]_vars

\* a run of the workflow against a catalog that may keep answering 429
InitSustained ==
    /\ pc = "fetch"
    /\ playlists \in AppLibraries
    /\ chart \in SustainedCharts
    /\ burst = RecursionLimit
    /\ InitCommon
    /\ arg = <<>> /\ out = <<>>

NextSustained == Next \/ QueryOverflow

SpecSustained == InitSustained /\ [][NextSustained]_vars

\* a run of the workflow over a chart of three entries
InitOrder ==
    /\ pc = "fetch"
    /\ playlists \in AppLibraries
    /\ chart \in OrderCharts
    /\ burst = 1
    /\ InitCommon
    /\ arg = <<>> /\ out = <<>>

SpecOrder == InitOrder /\ [][Next]_vars

\* a client that upserts
InitUpsert ==
    /\ pc = "client"
    /\ playlists \in Libraries
    /\ chart = <<>>
    /\ burst = 0
    /\ InitCommon
    /\ arg = <<>> /\ out = <<>>

SpecUpsert == InitUpsert /\ [][ClientUpsert]_vars

\* a client that looks playlists up by name
InitFind ==
    /\ pc = "find"
    /\ playlists \in Libraries \cup PagedLibraries
    /\ chart = <<>>
    /\ burst = 0
    /\ InitCommon
    /\ arg = <<>> /\ out = <<>>

SpecFind == InitFind /\ [][ClientFind]_vars

\* a client that writes the items of one playlist
InitItems ==
    /\ pc = "items"
    /\ playlists \in {lib \in Libraries : Len(lib) = 1}
    /\ chart = <<>>
    /\ burst = 0
    /\ InitCommon
    /\ arg = <<>> /\ out = <<>>

NextItems == ClientReplaceItems \/ ClientAddItemsChunked

SpecItems == InitItems /\ [][NextItems]_vars

-----------------------------------------------------------------------------
(* Helper functions applied on their own: arg is the argument, out the     *)
(* value returned.                                                         *)

\* a caller holds the argument of the helper named by p
InitHelper(p, inputs) ==
    /\ pc = p
    /\ arg \in inputs
    /\ out = <<>>
    /\ playlists = <<>>
    /\ chart = <<>>
    /\ burst = 0
    /\ InitCommon

\* the helper named by p returns value
Return(p, value) ==
    /\ pc = p
    /\ out' = value
    /\ pc' = "returned"
    /\ UNCHANGED <<arg, cover>>
    /\ UNCHANGED playlistVars
    /\ UNCHANGED matchVars

ChartMax == 100      \* fetch_hot100: deduped[:100]

\* line 79: entries = [e for e in entries if e.title]
NonEmptyTitles(entries) == SelectSeq(entries, LAMBDA e : e.title # <<>>)

\* a dedupe key that keeps the letter case
EntryKeyCased(e) == <<e.title, e.artist>>

\* line 84: key = (e.title.lower(), e.artist.lower())
EntryKey(e) == <<Lower(e.title), Lower(e.artist)>>

\* line 85: seen when the loop reaches entries[p]: every earlier entry's key
\* was added, by line 87 or on an earlier round
SeenBefore(entries, p) == {EntryKey(entries[q]) : q \in 1..(p - 1)}

\* lines 81-88: an entry is appended unless its key is in seen
Dedupe(entries) ==
    LET at == [p \in DOMAIN entries |-> [pos |-> p, e |-> entries[p]]]
        kept == SelectSeq(at, LAMBDA r : EntryKey(r.e) \notin SeenBefore(entries, r.pos))
    IN [i \in DOMAIN kept |-> kept[i].e]

\* lines 93-94: e.rank = idx
FixRanks(entries) == [i \in DOMAIN entries |-> [entries[i] EXCEPT !.rank = i]]

\* fetch_hot100 lines 78-97 on the entries parsed from the page
PostProcess(entries) ==
    FixRanks(Take(Dedupe(NonEmptyTitles(entries)), ChartMax))

Digits == <<"0","1","2","3","4","5","6","7","8","9">>

\* a title of three digits, a different one for each i < 1000
NumTitle(i) ==
    <<Digits[(i \div 100) + 1], Digits[((i \div 10) % 10) + 1], Digits[(i % 10) + 1]>>

MaxRows == 3        \* rows of a short page
MaxExtra == 3       \* rows of a long page beyond ChartMax

RowKinds ==
    { [title |-> <<"a">>, artist |-> <<"X">>],
      [title |-> <<"A">>, artist |-> <<"x">>],
      [title |-> <<>>,    artist |-> <<"X">>],
      [title |-> <<"a">>, artist |-> <<"Y">>],
      [title |-> <<"b">>, artist |-> <<"X">>] }

\* lines 63-67: the rows of the page with a title element, ranked as parsed
ShortPages ==
    UNION { { [i \in 1..n |-> [rank |-> i, title |-> f[i].title, artist |-> f[i].artist]] :
                f \in [1..n -> RowKinds] } :
            n \in 0..MaxRows }

\* a page of n rows, all different but for a repeat of the first row (in
\* another letter case) at dupAt and a row without title at emptyAt
LongPage(n, dupAt, emptyAt) ==
    [i \in 1..n |->
        [rank |-> i,
         title |-> IF i = emptyAt THEN <<>>
                   ELSE IF i = dupAt THEN NumTitle(1) ELSE NumTitle(i),
         artist |-> IF i = dupAt THEN <<"X">> ELSE <<"x">>]]

LongPages ==
    { LongPage(n, dupAt, emptyAt) :
        n \in ChartMax..(ChartMax + MaxExtra),
        dupAt \in {0, 50, ChartMax + 1}, emptyAt \in {0, 2, ChartMax} }

\* fetch_hot100 lines 78-97
FetchHot100 == Return("fetch_hot100", PostProcess(arg))

InitPage == InitHelper("fetch_hot100", ShortPages \cup LongPages)

SpecPage == InitPage /\ [][FetchHot100]_vars

\* titles: plain, with parts, with brackets, with a repeated and a
\* one-character part, empty, and one that contains text of the query syntax
QueryTitles ==
    { <<"a","b">>,
      <<"a","b","/","c","d">>,
      <<"a","b"," ","|"," ","c","d">>,
      <<"a","b"," ","(","x",")","/","c","d">>,
      <<"a","b","/","a","b">>,
      <<"a","b","/","c">>,
      <<>>,
      <<"a","b","/","a","b","\""," ","a","r","t","i","s","t",":","\"","P">> }

QueryArtists == { <<>>, <<"P">>, <<"P"," ","&"," ","Q">>, <<"+","4","4">> }

QueryInputs == [title : QueryTitles, artist : QueryArtists, year : {<<>>, Year1}]

\* search_best_track lines 210-227 with every result empty: the queries
\* handed to _run_query, in order
GenerateQueries == Return("queries", AllQueries(arg.title, arg.artist, arg.year))

InitQueries == InitHelper("queries", QueryInputs)

SpecQueries == InitQueries /\ [][GenerateQueries]_vars

MaxItems == 3       \* items of one result set

\* an item that scores as K2 does, under another uri
K5 == [uri |-> "u5", name |-> <<"a","b">>, artists |-> << <<"A">> >>, popularity |-> 90]

\* non-empty result sets, with items that score the same (K1 and K4, K2 and
\* K5) before, after and between items that score differently
SelectInputs ==
    [items : UNION { [1..n -> {K1, K2, K3, K4, K5}] : n \in 1..MaxItems },
     norm_t : { <<"a","b">>, <<"c","d">> },
     primary : { <<>>, <<"A">> }]

\* lines 232-233: best_uri = None, best_score = -1.0, no item looked at
NoBest == [pos |-> 0, best_uri |-> None, best_score |-> [num |-> -1, den |-> 1]]

\* lines 238-240 on the item after b.pos, which scored score
Round(items, b, score) ==
    IF Greater(score, b.best_score)
    THEN [pos |-> b.pos + 1, best_uri |-> items[b.pos + 1].uri, best_score |-> score]
    ELSE [b EXCEPT !.pos = b.pos + 1]

\* lines 234-240: one round of the loop over items
SelectRound ==
    /\ pc = "select"
    /\ out.pos < Len(arg.items)
    /\ out' = Round(arg.items, out,
                    ItemScore(arg.items[out.pos + 1], arg.norm_t, arg.primary))
    /\ UNCHANGED <<pc, arg, cover>>
    /\ UNCHANGED playlistVars
    /\ UNCHANGED matchVars

\* line 234 with no item left: the loop is over and best_uri is the selection
SelectDone ==
    /\ pc = "select"
    /\ out.pos = Len(arg.items)
    /\ pc' = "returned"
    /\ UNCHANGED <<out, arg, cover>>
    /\ UNCHANGED playlistVars
    /\ UNCHANGED matchVars

InitSelect ==
    /\ pc = "select"
    /\ arg \in SelectInputs
    /\ out = NoBest
    /\ playlists = <<>>
    /\ chart = <<>>
    /\ burst = 0
    /\ InitCommon

NextSelect == SelectRound \/ SelectDone

SpecSelect == InitSelect /\ [][NextSelect]_vars

\* what stands between two names of an artist credit: the separators of
\* _SPLIT_RE in several spellings, words that only look like them, plain
\* and doubled spaces, a typographic apostrophe, nothing
Joiners ==
    { <<",">>, <<","," ">>, <<" ",","," ">>,
      <<"&">>, <<" ","&"," ">>, <<" ","&">>,
      <<" ","x"," ">>, <<" ","X"," ">>, <<"x">>, <<" ","x">>,
      <<"times">>, <<" ","times"," ">>,
      <<" ","w","i","t","h"," ">>, <<" ","W","I","T","H"," ">>, <<"w","i","t","h">>,
      <<" ","a","n","d"," ">>, <<" ","A","n","d"," ">>, <<"a","n","d"," ">>,
      <<" ","f","e","a","t","."," ">>, <<" ","F","e","a","t",".">>,
      <<" ","f","e","a","t"," ">>, <<"f","e","a","t",".">>,
      <<" ","f","e","a","t","u","r","i","n","g"," ">>,
      <<" ","f","e","a","t","u","r","i","n","g">>,
      <<" ","f","t","."," ">>, <<" ","f","t"," ">>,
      <<"+">>, <<" ","+"," ">>,
      <<>>, <<" ">>, <<" "," ">>, <<"\t","&","\n">>, <<"rsquo","s"," ">> }

ArtistA == <<"A","r","t","i","s","t"," ","A">>
ArtistB == <<"A","r","t","i","s","t"," ","B">>

\* artist credits: a name or none, a joiner, a name or none
ArtistInputs ==
    { l \o j \o r : l \in { <<>>, <<"A">>, ArtistA, <<" ","A","b">> },
                    j \in Joiners,
                    r \in { <<>>, <<"B">>, ArtistB, <<"B"," ","&"," ","C">> } }

\* _primary_artist lines 39-42
PrimaryArtistOf == Return("primary_artist", PrimaryArtist(arg))

InitArtist == InitHelper("primary_artist", ArtistInputs)

SpecArtist == InitArtist /\ [][PrimaryArtistOf]_vars

-----------------------------------------------------------------------------
(* Properties of the matcher                                               *)

IsPrefix(p, s) == Len(p) <= Len(s) /\ SubSeq(s, 1, Len(p)) = p

\* every query of the entry at position k, in generated order
EntryQueries(k) ==
    AllQueries(list_for_search[k].title, list_for_search[k].artist, YearArg(appYear))

UrisOf(items) == {items[i].uri : i \in DOMAIN items}

\* C1: the queries of a search are issued one at a time in generated order;
\* while the search runs every result so far was empty, and a search that
\* returned a URI took it from the last query it issued, the only one with a
\* non-empty result, after which no further query was issued
C1_StopsAtFirstNonEmpty ==
    /\ search.active =>
          /\ IsPrefix(search.issued, EntryQueries(idx + 1))
          /\ Len(search.issued) = Len(search.results) + 1
          /\ \A i \in DOMAIN search.results : search.results[i] = <<>>
    /\ (returned.entry > 0 /\ returned.uri # None) =>
          /\ IsPrefix(returned.issued, EntryQueries(returned.entry))
          /\ Len(returned.issued) = Len(returned.results)
          /\ returned.results[Len(returned.results)] # <<>>
          /\ returned.uri \in UrisOf(returned.results[Len(returned.results)])
          /\ \A i \in 1..(Len(returned.results) - 1) : returned.results[i] = <<>>

\* a search returned a URI from its second or later query while queries
\* that were never issued remained
C1_Witness ==
    /\ returned.entry > 0 /\ returned.uri # None
    /\ Len(returned.issued) >= 2
    /\ Len(returned.issued) < Len(EntryQueries(returned.entry))

Failures == {"SpotifyException", "Exception"}

\* C5: a search returns None exactly when it issued every query of every
\* title candidate and each result was empty; a failure of a query that is
\* no rate limit is taken as an empty result: the loop goes on to the next
\* query, or returns None after the last one, and nothing is raised
C5_UnmatchedIffExhausted ==
    /\ returned.entry > 0 =>
          (returned.uri = None <=>
              /\ returned.issued = EntryQueries(returned.entry)
              /\ \A i \in DOMAIN returned.results : returned.results[i] = <<>>)
    /\ (search.active /\ search.last.ans \in Failures) =>
          /\ search.results # <<>>
          /\ search.results[Len(search.results)] = <<>>
          /\ search.issued[Len(search.results)] = search.last.q
          /\ search.issued = SubSeq(EntryQueries(idx + 1), 1, Len(search.results) + 1)
    /\ (returned.entry > 0 /\ returned.last.ans \in Failures) =>
          /\ returned.uri = None
          /\ returned.results[Len(returned.results)] = <<>>
          /\ returned.issued[Len(returned.issued)] = returned.last.q
    /\ pc # "failed_match"

\* a search of several queries returned None after its last query failed
C5_Witness ==
    /\ returned.entry > 0 /\ returned.uri = None
    /\ returned.last.ans = "Exception"
    /\ Len(returned.issued) >= 4

-----------------------------------------------------------------------------
(* Properties of the matching loop of app.py                               *)

\* the uris of the matched ones among the first k entries, in entry order
RECURSIVE MatchedUpTo(_)
MatchedUpTo(k) ==
    IF k = 0 THEN <<>>
    ELSE IF outcomes[k] # None THEN Append(MatchedUpTo(k - 1), outcomes[k])
         ELSE MatchedUpTo(k - 1)

\* the unmatched ones among the first k entries, in entry order
RECURSIVE MissingUpTo(_)
MissingUpTo(k) ==
    IF k = 0 THEN <<>>
    ELSE IF outcomes[k] = None THEN Append(MissingUpTo(k - 1), list_for_search[k])
         ELSE MissingUpTo(k - 1)

\* C7: entries are matched one after another in chart order; uris holds the
\* URIs of the matched entries in the order of the entries, missing the
\* unmatched entries, together as many as the entries processed; the upsert
\* is called once every entry is processed and is handed exactly uris
C7_OrderPreserved ==
    /\ Len(outcomes) = idx /\ idx <= Len(list_for_search)
    /\ idx > 0 => returned.entry = idx /\ returned.uri = outcomes[idx]
    /\ appUris = MatchedUpTo(idx)
    /\ appMissing = MissingUpTo(idx)
    /\ Len(appUris) + Len(appMissing) = idx
    /\ req.op = "upsert" =>
          /\ idx = Len(list_for_search)
          /\ req.uris = appUris
          /\ Len(req.uris) + Len(appMissing) = Len(list_for_search)

\* the upsert was handed two different URIs, those of the first and the third
\* entry, the second entry being unmatched
C7_Witness ==
    /\ req.op = "upsert" /\ Len(list_for_search) = 3
    /\ outcomes[1] # None /\ outcomes[2] = None /\ outcomes[3] # None
    /\ outcomes[1] # outcomes[3]
    /\ req.uris = <<outcomes[1], outcomes[3]>>

-----------------------------------------------------------------------------
(* Properties of the playlist operations                                   *)

CeilDiv(a, b) == (a + b - 1) \div b

\* the playlist with id pid among pls
PlaylistOf(pls, pid) == pls[CHOOSE i \in DOMAIN pls : pls[i].id = pid]

\* the batch the i-th call of replace_items(uris) has to carry
BatchOf(us, i) == SubSeq(us, ReplaceMax * (i - 1) + 1, Min(ReplaceMax * i, Len(us)))

\* C3: replace_items(uris) with n items issues one replace call carrying the
\* first min(n, 100) items, then ceil(max(n - 100, 0) / 100) add calls of 100
\* items, the last one possibly smaller and none empty, in input order: the
\* i-th call carries uris[100(i-1)+1 .. min(100i, n)], duplicates included; a
\* call that raises ends the operation there
C3_ChunkedReplace ==
    req.op = "replace" =>
        /\ calls # <<>>
        /\ calls[1].op = "replace"
        /\ Len(calls[1].items) = Min(Len(req.uris), ReplaceMax)
        /\ \A i \in DOMAIN calls :
              /\ calls[i].pid = ret.pid
              /\ calls[i].items = BatchOf(req.uris, i)
              /\ i > 1 => /\ calls[i].op = "add"
                          /\ calls[i].items # <<>>
                          /\ calls[i - 1].ok
                          /\ Len(calls[i - 1].items) = ReplaceMax
        /\ ret.status = "ok" =>
              /\ Len(calls) = 1 + CeilDiv(Max(Len(req.uris) - ReplaceMax, 0), Chunk)
              /\ PlaylistOf(playlists, ret.pid).tracks = req.uris
        /\ ret.status = "raised" => ~calls[Len(calls)].ok

\* replace_items of 150 items returned: one replace call of 100 and one add
\* call of 50
C3_Witness ==
    /\ req.op = "replace" /\ ret.status = "ok" /\ Len(req.uris) = 150
    /\ Len(calls) = 2
    /\ calls[1].op = "replace" /\ Len(calls[1].items) = 100
    /\ calls[2].op = "add" /\ Len(calls[2].items) = 50

\* the names are equal up to letter case and surrounding whitespace
SameName(a, b) == Lower(Strip(a)) = Lower(Strip(b))

\* the positions of the playlists whose name is name
Named(pls, name) == {i \in DOMAIN pls : SameName(pls[i].name, name)}

\* the names are equal up to letter case only
SameNameUpToCase(a, b) == Lower(a) = Lower(b)

NamedUpToCase(pls, name) == {i \in DOMAIN pls : SameNameUpToCase(pls[i].name, name)}

FirstOf(S) == CHOOSE i \in S : \A j \in S : i <= j

AllNames == LibNames \cup RequestNames

\* C4: an upsert creates a playlist, and returns (id, True), only when no
\* playlist has the name; when one has it nothing is created, the first such
\* playlist is the only one changed and (its id, False) is returned; so no
\* upsert raises the number of playlists of a name above one
C4_FindOrCreate ==
    req.op = "upsert" =>
        /\ (\E i \in DOMAIN calls : calls[i].op = "create") =>
              Named(before, req.name) = {}
        /\ ret.created =>
              /\ Named(before, req.name) = {}
              /\ Ids(playlists) = Ids(before) \cup {ret.pid}
              /\ ret.pid \notin Ids(before)
              /\ PlaylistOf(playlists, ret.pid).name = req.name
              /\ PlaylistOf(playlists, ret.pid).tracks = req.uris
        /\ Named(before, req.name) # {} =>
              /\ Len(playlists) = Len(before)
              /\ \A i \in DOMAIN before :
                    i # FirstOf(Named(before, req.name)) => playlists[i] = before[i]
              /\ ret.status = "ok" =>
                    /\ ~ret.created
                    /\ ret.pid = before[FirstOf(Named(before, req.name))].id
                    /\ playlists[FirstOf(Named(before, req.name))].id = ret.pid
        /\ \A n \in AllNames :
              Cardinality(Named(playlists, n))
                  <= Max(1, Cardinality(Named(before, n)))

\* an upsert created a playlist and the next upsert of the name updated it
C4_Witness ==
    /\ nCalls >= 2 /\ req.op = "upsert" /\ prev.req.op = "upsert"
    /\ SameName(prev.req.name, req.name)
    /\ prev.ret.status = "ok" /\ prev.ret.created
    /\ ret.status = "ok" /\ ~ret.created /\ ret.pid = prev.ret.pid
    /\ Cardinality(Named(playlists, req.name)) = 1

\* both of two consecutive upserts of one name with replace=True returned
TwoUpserts ==
    /\ nCalls >= 2 /\ req.op = "upsert" /\ prev.req.op = "upsert"
    /\ req.name = prev.req.name
    /\ req.replace /\ prev.req.replace
    /\ ret.status = "ok" /\ prev.ret.status = "ok"

\* C2 as stated: from any playlists, two upserts leave exactly one playlist
\* whose name equals the name up to letter case, holding the second uris
C2_AsStated ==
    TwoUpserts =>
        /\ Cardinality(NamedUpToCase(playlists, req.name)) = 1
        /\ ~ret.created
        /\ PlaylistOf(playlists, ret.pid).tracks = req.uris

\* C2: when at most one playlist has the name (up to letter case and
\* surrounding whitespace) to begin with and both upserts return, exactly one
\* playlist has the name afterwards, the second upsert creates none and
\* updates the playlist the first one returned, and its track list is the
\* second uris exactly
C2_UpsertIdempotent ==
    (TwoUpserts /\ Cardinality(Named(prev.before, req.name)) <= 1) =>
        /\ Cardinality(Named(playlists, req.name)) = 1
        /\ ~ret.created
        /\ ret.pid = prev.ret.pid
        /\ Len(playlists) = Len(before)
        /\ PlaylistOf(playlists, ret.pid).tracks = req.uris

\* the first upsert created the playlist with more than 100 uris and the
\* second one replaced them with two
C2_Witness ==
    /\ TwoUpserts /\ Named(prev.before, req.name) = {}
    /\ prev.ret.created
    /\ Len(prev.req.uris) > ReplaceMax /\ Len(req.uris) = 2
    /\ PlaylistOf(playlists, ret.pid).tracks = req.uris

\* the details call of the operation failed
DetailsFailed == \E i \in DOMAIN calls : calls[i].op = "details" /\ ~calls[i].ok

DetailsAt == CHOOSE i \in DOMAIN calls : calls[i].op = "details"

\* C9: when the playlist is found and its details call fails, the operation
\* goes on: the next call replaces the tracks (replace=True) or adds uris
\* (replace=False, uris not empty); it raises only if one of those calls
\* raises; otherwise it returns (id, False) with the tracks replaced or
\* appended to and the name, visibility and description as they were
C9_DetailsFailureSwallowed ==
    (req.op = "upsert" /\ DetailsFailed) =>
        /\ calls[DetailsAt].pid = before[FirstOf(Named(before, req.name))].id
        /\ (req.replace \/ req.uris # <<>>) =>
              /\ Len(calls) > DetailsAt
              /\ calls[DetailsAt + 1].op = (IF req.replace THEN "replace" ELSE "add")
              /\ calls[DetailsAt + 1].pid = calls[DetailsAt].pid
              /\ calls[DetailsAt + 1].items = Take(req.uris, ReplaceMax)
        /\ ret.status = "raised" =>
              (\E j \in (DetailsAt + 1)..Len(calls) : ~calls[j].ok)
        /\ ret.status = "ok" =>
              /\ ret.pid = calls[DetailsAt].pid /\ ~ret.created
              /\ PlaylistOf(playlists, ret.pid).tracks =
                    (IF req.replace THEN req.uris
                     ELSE PlaylistOf(before, ret.pid).tracks \o req.uris)
              /\ PlaylistOf(playlists, ret.pid).name = PlaylistOf(before, ret.pid).name
              /\ PlaylistOf(playlists, ret.pid).public = PlaylistOf(before, ret.pid).public

\* the details call failed and the tracks were appended to all the same
C9_Witness ==
    /\ req.op = "upsert" /\ DetailsFailed /\ ~req.replace
    /\ ret.status = "ok" /\ ~ret.created
    /\ Len(req.uris) > Chunk
    /\ PlaylistOf(playlists, ret.pid).tracks = OldTracks \o req.uris

\* the ids the list calls of the operation returned, in call order
RECURSIVE Enumerated(_)
Enumerated(k) ==
    IF k = 0 THEN <<>>
    ELSE Enumerated(k - 1) \o (IF calls[k].ok THEN calls[k].ids ELSE <<>>)

-----------------------------------------------------------------------------
(* Properties of the gateway under rate limiting and of failed runs        *)

\* C6 as stated: after a 429 answer the gateway has slept for Retry-After (2
\* when absent) and calls again with the same query and limit, however many
\* 429 answers came before; no 429 answer ends as an empty result or as an
\* error of the caller
C6_AsStated ==
    /\ search.last.ans = "429" =>
          /\ search.active
          /\ search.call = [q |-> search.last.q, limit |-> search.last.limit]
          /\ search.call.q = search.issued[Len(search.issued)]
          /\ search.last.slept \in {1, DefaultRetryAfter}
          /\ Len(search.issued) = Len(search.results) + 1
    /\ search.last.ans # "RecursionError"
    /\ returned.last.ans # "RecursionError"
    /\ pc # "failed_match"

FailedRun == {"failed_fetch", "failed_connect", "failed_match", "failed_upsert"}

\* a proper part of the uris handed to the upsert
PartOf(tracks, us) == Len(tracks) < Len(us) /\ tracks = SubSeq(us, 1, Len(tracks))

\* C8 as stated: in a run that ended with an error of the chart fetch, the
\* client setup, the matching or the upsert, no playlist has been created and
\* no playlist's tracks were set to only a part of the matched URIs
C8_AsStated ==
    pc \in FailedRun =>
        /\ Ids(playlists) = Ids(before)
        /\ \A i \in DOMAIN playlists :
              playlists[i].id \in Ids(before) =>
                 \/ playlists[i].tracks = PlaylistOf(before, playlists[i].id).tracks
                 \/ ~PartOf(playlists[i].tracks, req.uris)

-----------------------------------------------------------------------------
(* Properties of the scoring and of the selection                          *)

\* how many queries each title candidate of entry k gets
QueriesPerCandidate(k) ==
    Len(Queries(<<>>, PrimaryArtist(list_for_search[k].artist), YearArg(appYear)))

\* the title candidate the i-th query of entry k was generated for
CandidateOf(k, i) ==
    TitleCandidates(list_for_search[k].title)[((i - 1) \div QueriesPerCandidate(k)) + 1]

\* the score the loop gives item it of the i-th result of entry k
ScoreIn(k, i, it) ==
    ItemScore(it, SanitizeTitle(CandidateOf(k, i)),
              PrimaryArtist(list_for_search[k].artist))

\* no item of the results scores higher than c, an item of the n-th result
BestOfAll(k, results, n, c) ==
    \A i \in DOMAIN results : \A j \in DOMAIN results[i] :
        ~Greater(ScoreIn(k, i, results[i][j]), ScoreIn(k, n, c))

\* C11: when a search returns a URI, it is the uri of an item whose score is
\* not below the score of any item of any result the search got for the
\* entry
C11_ReturnedIsBestScored ==
    (returned.entry > 0 /\ returned.uri # None) =>
        \E j \in DOMAIN returned.results[Len(returned.results)] :
            /\ returned.results[Len(returned.results)][j].uri = returned.uri
            /\ BestOfAll(returned.entry, returned.results, Len(returned.results),
                         returned.results[Len(returned.results)][j])

\* a search returned, from its second or a later query, an item that is not
\* the first of its result and scores higher than the first
C11_Witness ==
    /\ returned.entry > 0 /\ returned.uri # None
    /\ Len(returned.results) >= 2
    /\ Len(returned.results[Len(returned.results)]) >= 2
    /\ returned.uri = returned.results[Len(returned.results)][2].uri
    /\ Greater(ScoreIn(returned.entry, Len(returned.results),
                       returned.results[Len(returned.results)][2]),
               ScoreIn(returned.entry, Len(returned.results),
                       returned.results[Len(returned.results)][1]))

-----------------------------------------------------------------------------
(* Properties of the chart source                                          *)

\* the (lowercased title, lowercased artist) key of an entry
KeyOf(e) == <<Lower(e.title), Lower(e.artist)>>

\* the position in rows of the first row with a title whose key is that of e
FirstSeen(rows, e) ==
    CHOOSE p \in DOMAIN rows :
        /\ rows[p].title # <<>> /\ KeyOf(rows[p]) = KeyOf(e)
        /\ \A q \in 1..(p - 1) :
              rows[q].title = <<>> \/ KeyOf(rows[q]) # KeyOf(e)

\* some row with a title has the key of e
Seen(rows, e) ==
    \E p \in DOMAIN rows : rows[p].title # <<>> /\ KeyOf(rows[p]) = KeyOf(e)

\* C12: the list fetch_hot100 returns has no entry with an empty title, no
\* two entries of one (lowercased title, lowercased artist) key, at most 100
\* entries and the ranks 1..N in list order; each entry is the first row of
\* its key, the entries are in the order of those rows, and a key of the page
\* is missing only when 100 earlier keys fill the list
C12_ChartPostProcessing ==
    pc = "returned" =>
        /\ Len(out) <= ChartMax
        /\ \A i \in DOMAIN out :
              /\ out[i].title # <<>>
              /\ out[i].rank = i
              /\ Seen(arg, out[i])
              /\ out[i].title = arg[FirstSeen(arg, out[i])].title
              /\ out[i].artist = arg[FirstSeen(arg, out[i])].artist
        /\ \A i, j \in DOMAIN out : i < j => KeyOf(out[i]) # KeyOf(out[j])
        /\ \A i \in 1..(Len(out) - 1) :
              FirstSeen(arg, out[i]) < FirstSeen(arg, out[i + 1])
        /\ \A p \in DOMAIN arg :
              (arg[p].title # <<>> /\ \A i \in DOMAIN out : KeyOf(out[i]) # KeyOf(arg[p]))
                  => /\ Len(out) = ChartMax
                     /\ FirstSeen(arg, out[ChartMax]) < p

\* a page of more than 100 keys with a repeated row and a row without title
\* came back as 100 entries
C12_Witness ==
    /\ pc = "returned" /\ Len(out) = ChartMax /\ Len(arg) > ChartMax + 2
    /\ \E p \in DOMAIN arg : arg[p].title = <<>>
    /\ \E p, q \in DOMAIN arg : p < q /\ arg[p].title # <<>>
                                 /\ KeyOf(arg[p]) = KeyOf(arg[q])

-----------------------------------------------------------------------------
(* Properties of the cover upload                                          *)

\* C13 as stated: whatever makes upload_cover_image fail, it returns False
\* and does not raise, and the run stores its result with uploaded = False
C13_AsStated ==
    /\ pc # "failed_cover"
    /\ (cover.enabled /\ cover.failure # "none") =>
          /\ ~cover.uploaded
          /\ pc \in {"store", "done"}
          /\ pc = "done" => cover.stored

-----------------------------------------------------------------------------
(* Properties of the query generation                                      *)

\* the text of a query for title t, with the artist and the year that are
\* given
QueryText(t, artist, year) ==
    <<"t","r","a","c","k",":","\"">> \o t \o <<"\"">>
    \o (IF artist # <<>>
        THEN <<" ","a","r","t","i","s","t",":","\"">> \o artist \o <<"\"">>
        ELSE <<>>)
    \o (IF year # <<>> THEN <<" ","y","e","a","r",":">> \o year ELSE <<>>)

\* the queries of one title candidate in the precedence title+artist+year,
\* title+artist, title+year, title
Precedence(t, artist, year) ==
    (IF artist # <<>> /\ year # <<>> THEN <<QueryText(t, artist, year)>> ELSE <<>>)
    \o (IF artist # <<>> THEN <<QueryText(t, artist, <<>>)>> ELSE <<>>)
    \o (IF year # <<>> THEN <<QueryText(t, <<>>, year)>> ELSE <<>>)
    \o <<QueryText(t, <<>>, <<>>)>>

\* the queries of the c-th of n equal blocks of qs
BlockOfQueries(qs, n, c) == SubSeq(qs, (c - 1) * (Len(qs) \div n) + 1, c * (Len(qs) \div n))

Distinct(qs) == \A i, j \in DOMAIN qs : i # j => qs[i] # qs[j]

\* out is, candidate after candidate, the queries of each title candidate in
\* the fixed precedence
InPrecedence(cands, artist, year) ==
    /\ Len(out) = Len(cands) * Len(Precedence(<<>>, artist, year))
    /\ \A c \in DOMAIN cands :
          /\ BlockOfQueries(out, Len(cands), c)
                 = Precedence(SanitizeTitle(cands[c]), artist, year)
          /\ Distinct(BlockOfQueries(out, Len(cands), c))

HasQuote(t) == \E i \in DOMAIN t : t[i] = "\""

\* C14 as stated: the queries of an entry come candidate after candidate, in
\* the fixed precedence, and are pairwise distinct
C14_AsStated ==
    pc = "returned" =>
        /\ InPrecedence(TitleCandidates(arg.title), PrimaryArtist(arg.artist), arg.year)
        /\ Distinct(out)

\* C14: the queries of an entry come title candidate after title candidate,
\* each candidate's in the precedence title+artist+year (primary artist and
\* year non-empty), title+artist (primary artist non-empty), title+year (year
\* non-empty), title; the queries of one candidate are pairwise distinct, and
\* so are all queries of the entry when no title candidate holds a double
\* quote
C14_QueryOrder ==
    pc = "returned" =>
        /\ InPrecedence(TitleCandidates(arg.title), PrimaryArtist(arg.artist), arg.year)
        /\ PrimaryArtist(arg.artist) # <<>> => arg.artist # <<>>
        /\ (\A c \in DOMAIN TitleCandidates(arg.title) :
                ~HasQuote(TitleCandidates(arg.title)[c]))
              => Distinct(out)

\* twelve queries were generated: three title candidates, with artist and year
C14_Witness ==
    /\ pc = "returned" /\ Len(out) = 12
    /\ Len(TitleCandidates(arg.title)) = 3
    /\ ~HasQuote(arg.title)
    /\ Distinct(out)

-----------------------------------------------------------------------------
(* Properties of the selection within one result set                       *)

\* the score of the i-th item of the result set
ScoreOf(i) == ItemScore(arg.items[i], arg.norm_t, arg.primary)

\* score x is above score y (denominators are positive)
Above(x, y) == x.num * y.den - y.num * x.den > 0

\* item i scores highest and every item before it scores lower
FirstHighest(i) ==
    /\ \A j \in DOMAIN arg.items : ~Above(ScoreOf(j), ScoreOf(i))
    /\ \A j \in 1..(i - 1) : Above(ScoreOf(i), ScoreOf(j))

\* C15: the selection within a non-empty result set is the first, in catalog
\* order, of the items with the highest score, and the current best changes
\* only to the item just looked at, when it scores strictly above the
\* current best
C15_SelectsFirstHighest ==
    /\ [](pc = "returned" =>
            /\ \E i \in DOMAIN arg.items :
                  out.best_uri = arg.items[i].uri /\ FirstHighest(i)
            /\ out.best_uri = BestUri(arg.items, arg.norm_t, arg.primary))
    /\ [][out'.best_uri # out.best_uri =>
            /\ out'.best_uri = arg.items[out'.pos].uri
            /\ out'.best_score = ItemScore(arg.items[out'.pos], arg.norm_t, arg.primary)
            /\ Above(out'.best_score, out.best_score)]_vars

\* the second of three items was selected: it scores above the first and the
\* same as the third, which is another track
C15_Witness ==
    /\ pc = "returned" /\ Len(arg.items) = 3
    /\ out.best_uri = arg.items[2].uri
    /\ arg.items[3].uri # arg.items[2].uri
    /\ Above(ScoreOf(2), ScoreOf(1))
    /\ ~Above(ScoreOf(2), ScoreOf(3)) /\ ~Above(ScoreOf(3), ScoreOf(2))

-----------------------------------------------------------------------------
(* Properties of primary_artist                                            *)

\* the separators as the specification lists them
StatedSeparators ==
    { <<",">>, <<" ","&"," ">>, <<" ","x"," ">>, <<"times">>,
      <<" ","w","i","t","h"," ">>, <<" ","a","n","d"," ">>,
      <<" ","f","e","a","t",".">>,
      <<" ","f","e","a","t","u","r","i","n","g"," ">>,
      <<" ","f","t",".">>, <<"+">> }

\* the same, with the ampersand on its own
FoundSeparators == (StatedSeparators \ { <<" ","&"," ">> }) \cup { <<"&">> }

\* the quote- and whitespace-unified text
Unified(text) == CollapseSpaces(UnifyQuotes(text))

\* sep stands in a at position i, letter case ignored
StandsAt(a, i, sep) ==
    /\ i + Len(sep) - 1 <= Len(a)
    /\ Lower(SubSeq(a, i, i + Len(sep) - 1)) = sep

\* the positions of a where a separator of seps stands
Cuts(a, seps) == {i \in DOMAIN a : \E sep \in seps : StandsAt(a, i, sep)}

\* a up to its first separator of seps, without the whitespace before the
\* separator; a itself when it holds none
FirstSegment(a, seps) ==
    IF Cuts(a, seps) = {} THEN a
    ELSE RStrip(SubSeq(a, 1, (CHOOSE i \in Cuts(a, seps) :
                                  \A m \in Cuts(a, seps) : i <= m) - 1))

\* C16 as stated: primary_artist returns the first segment of the unified
\* text split on comma, ' & ', ' x ', the multiplication sign, ' with ',
\* ' and ', ' feat.', ' featuring ', ' ft.' and '+', and the whole text when
\* it holds none of them
C16_AsStated ==
    pc = "returned" => out = FirstSegment(Unified(arg), StatedSeparators)

\* C16: primary_artist returns the first segment of the unified text split,
\* case-insensitively, on comma, '&' (with or without spaces around it),
\* ' x ', the multiplication sign, ' with ', ' and ', ' feat.',
\* ' featuring ', ' ft.' and '+', without the whitespace before the
\* separator; unified text holding none of them is returned whole, empty
\* input gives empty text, and "Artist A, Artist B" gives "Artist A"
C16_PrimaryArtist ==
    pc = "returned" =>
        /\ out = FirstSegment(Unified(arg), FoundSeparators)
        /\ Cuts(Unified(arg), FoundSeparators) = {} => out = Unified(arg)
        /\ arg = <<>> => out = <<>>
        /\ arg = ArtistA \o <<","," ">> \o ArtistB => out = ArtistA

\* primary_artist cut a credit at an ampersand that has no space before it
C16_Witness ==
    /\ pc = "returned"
    /\ arg = ArtistA \o <<"&">> \o ArtistB
    /\ out = ArtistA

====
